---- MODULE Spec2Model ----
(***************************************************************************)
(* Price and tick conversions of uniswap-v3-sdk-rs                         *)
(* (src/extensions/price_tick_conversions.rs).                             *)
(*                                                                         *)
(* The functions of the file are pure; the only process-wide state is the  *)
(* pair of Lazy statics MIN_PRICE and MAX_PRICE.  Each function is an      *)
(* operator computed as the code computes it, on the real constants:       *)
(* BigInt values are arbitrary-precision naturals (sequences of limbs),    *)
(* BigDecimal values are (sign, int_val, scale) triples with the           *)
(* 100-significant-digit division of the bigdecimal crate, and I24 ticks   *)
(* are integers with 24-bit two's-complement overflow.                     *)
(***************************************************************************)
EXTENDS Integers, Sequences, FiniteSets, Bags, TLC

(***************************************************************************)
(* Every function of the model is entered through Call, which evaluates   *)
(* the arguments before the function is entered (Rust calls by value).     *)
(* The operations of num-bigint and bigdecimal below are entry points.     *)
(***************************************************************************)
RECURSIVE Call(_, _, _, _, _)
Call1(fn, x1) == Call(fn, x1, <<>>, <<>>, <<>>)
Call2(fn, x1, x2) == Call(fn, x1, x2, <<>>, <<>>)
Call3(fn, x1, x2, x3) == Call(fn, x1, x2, x3, <<>>)
NAdd(a, b) == Call("NAdd", a, b, <<>>, <<>>)
NSub(a, b) == Call("NSub", a, b, <<>>, <<>>)
NCmp(a, b) == Call("NCmp", a, b, <<>>, <<>>)
NMulSmall(a, k) == Call("NMulSmall", a, k, <<>>, <<>>)
NMul(a, b) == Call("NMul", a, b, <<>>, <<>>)
NDivModSmall(a, k) == Call("NDivModSmall", a, k, <<>>, <<>>)
LongDiv(a, b) == Call("LongDiv", a, b, <<>>, <<>>)
NSqrt(n) == Call("NSqrt", n, <<>>, <<>>, <<>>)
BdCmp(x, y) == Call("BdCmp", x, y, <<>>, <<>>)
BdAdd(x, y) == Call("BdAdd", x, y, <<>>, <<>>)
BdMul(x, y) == Call("BdMul", x, y, <<>>, <<>>)
BdDiv(x, y) == Call("BdDiv", x, y, <<>>, <<>>)
BdSqrt(x) == Call("BdSqrt", x, <<>>, <<>>, <<>>)

Max2(x, y) == IF x >= y THEN x ELSE y
Min2(x, y) == IF x <= y THEN x ELSE y

(***************************************************************************)
(* BigInt / BigUint magnitudes: little-endian sequences of limbs in base   *)
(* Radix, without leading zero limbs; zero is the empty sequence.          *)
(***************************************************************************)
Radix == 10 * 10 * 10
LimbDigits == 1 + 1 + 1

Limb(a, i) == IF i >= 1 /\ i <= Len(a) THEN a[i] ELSE 0

\* the largest index in lo..hi of a non-zero entry of a, or 0; the halves are
\* searched from the top, so the evaluation depth is logarithmic
RECURSIVE TopIndex(_, _, _)
TopIndex(a, lo, hi) ==
    IF lo > hi THEN 0
    ELSE IF lo = hi THEN (IF a[lo] # 0 THEN lo ELSE 0)
    ELSE LET mid == (lo + hi) \div 2
             up == TopIndex(a, mid + 1, hi)
         IN IF up # 0 THEN up ELSE TopIndex(a, lo, mid)
TrimLen(a, n) == IF n = 0 THEN 0 ELSE IF a[n] # 0 THEN n ELSE TopIndex(a, 1, n - 1)
Trim(a) == LET s == a \o <<>> IN SubSeq(s, 1, TrimLen(s, Len(s)))

RECURSIVE NFromInt(_)
NFromInt(n) == IF n = 0 THEN <<>> ELSE <<n % Radix>> \o NFromInt(n \div Radix)

RECURSIVE NToInt(_, _)
NToInt(a, i) == IF i > Len(a) THEN 0 ELSE a[i] + Radix * NToInt(a, i + 1)

\* the sign of the most significant non-zero entry of f on lo..hi, or 0
RECURSIVE SignRange(_, _, _)
SignRange(f, lo, hi) ==
    IF lo = hi THEN (IF f[lo] > 0 THEN 1 ELSE IF f[lo] < 0 THEN -1 ELSE 0)
    ELSE LET mid == (lo + hi) \div 2
             up == SignRange(f, mid + 1, hi)
         IN IF up # 0 THEN up ELSE SignRange(f, lo, mid)

\* the carry out of limb i of a sum of two limb sequences (entries v[i] <= 2 * Radix - 2):
\* the most significant entry at or below i that is not Radix - 1 decides
CarryOut(v, i) ==
    IF i = 0 THEN 0
    ELSE IF v[i] >= Radix THEN 1
    ELSE IF v[i] < Radix - 1 THEN 0
    ELSE IF SignRange([k \in 1..i |-> v[k] - (Radix - 1)], 1, i) = 1 THEN 1 ELSE 0
AddLimbs(v) ==
    LET n == Len(v)
        top == CarryOut(v, n)
    IN [i \in 1..(n + top) |->
          IF i > n THEN top ELSE (v[i] + CarryOut(v, i - 1)) % Radix] \o <<>>
NAddImpl(a, b) ==
    AddLimbs([i \in 1..Max2(Len(a), Len(b)) |-> Limb(a, i) + Limb(b, i)] \o <<>>)

\* the borrow out of limb i of a difference (entries d[i] = a[i] - b[i]): the most
\* significant non-zero entry at or below i decides
BorrowOut(d, i) ==
    IF i = 0 THEN 0
    ELSE IF d[i] < 0 THEN 1
    ELSE IF d[i] > 0 THEN 0
    ELSE IF SignRange(d, 1, i) = -1 THEN 1 ELSE 0
\* a - b for a >= b
NSubImpl(a, b) ==
    LET d == [i \in 1..Len(a) |-> a[i] - Limb(b, i)]
    IN Trim([i \in 1..Len(a) |-> (d[i] - BorrowOut(d, i - 1) + Radix) % Radix])

\* -1, 0, 1 as a < b, a = b, a > b
RECURSIVE CmpRange(_, _, _, _)
CmpRange(a, b, lo, hi) ==
    IF lo = hi THEN (IF a[lo] > b[lo] THEN 1 ELSE IF a[lo] < b[lo] THEN -1 ELSE 0)
    ELSE LET mid == (lo + hi) \div 2
             up == CmpRange(a, b, mid + 1, hi)
         IN IF up # 0 THEN up ELSE CmpRange(a, b, lo, mid)
NCmpImpl(a, b) ==
    IF Len(a) > Len(b) THEN 1
    ELSE IF Len(a) < Len(b) THEN -1
    ELSE IF Len(a) = 0 THEN 0
    ELSE CmpRange(a, b, 1, Len(a))
NLt(a, b) == NCmp(a, b) = -1
NLe(a, b) == NCmp(a, b) # 1

\* a * Radix^n
NShl(a, n) == IF a = <<>> THEN a ELSE [i \in 1..n |-> 0] \o a

\* a * k for a small factor 0 <= k <= Radix
NMulSmallImpl(a, k) ==
    IF k = 0 \/ a = <<>> THEN <<>>
    ELSE Trim(NAdd([i \in 1..Len(a) |-> (a[i] * k) % Radix],
                   <<0>> \o [i \in 1..Len(a) |-> (a[i] * k) \div Radix]))

\* the sum over i in lo..hi of a[i] * b[k + 1 - i] (a bag's cardinality is the sum
\* of its positive counts)
ConvSum(a, b, k, lo, hi) ==
    BagCardinality([i \in lo..hi |-> a[i] * b[k + 1 - i] + 1]) - (hi - lo + 1)
\* the number of the column sums v (entries below Radix^3): v[k] is split into three
\* limbs at k, k + 1 and k + 2
ColumnSums(v) ==
    LET n == Len(v)
        p0 == [k \in 1..n |-> v[k] % Radix]
        p1 == <<0>> \o [k \in 1..n |-> (v[k] \div Radix) % Radix]
        p2 == <<0, 0>> \o [k \in 1..n |-> v[k] \div (Radix * Radix)]
    IN Trim(NAdd(NAdd(p0 \o <<>>, p1), p2))
NMulImpl(a, b) ==
    IF a = <<>> \/ b = <<>> THEN <<>>
    ELSE ColumnSums([k \in 1..(Len(a) + Len(b) - 1) |->
                        ConvSum(a, b, k, Max2(1, k + 1 - Len(b)), Min2(k, Len(a)))] \o <<>>)

Reverse(s) == [i \in 1..Len(s) |-> s[Len(s) + 1 - i]]

\* [q |-> a div k, r |-> a mod k] for a small divisor 0 < k <= Radix
DivSmallStep(a, k, s) ==
    LET cur == s.r * Radix + a[Len(a) + 1 - s.i]
    IN [i |-> s.i + 1, r |-> cur % k, q |-> Append(s.q, cur \div k)]
\* a div k for a divisor k of Radix
NDivExactRadix(a, k) ==
    Trim([i \in 1..Len(a) |-> (a[i] \div k) + (Limb(a, i + 1) % k) * (Radix \div k)])

\* one quotient limb of the long division: the estimate from the top limbs of a
\* normalised divisor is at most 2 too large
RECURSIVE QFix(_, _, _)
QFix(rem, b, q) == IF NCmp(NMulSmall(b, q), rem) = 1 THEN QFix(rem, b, q - 1) ELSE q
QDigit(rem, b) ==
    LET n == Len(b)
        est == (Limb(rem, n + 1) * Radix + Limb(rem, n)) \div b[n]
    IN QFix(rem, b, Min2(est, Radix - 1))

LongDivStep(a, b, s) ==
    LET cur == Trim(<<a[Len(a) - Len(b) + 2 - s.i]>> \o s.rem)
        q == QDigit(cur, b)
    IN [i |-> s.i + 1, rem |-> NSub(cur, NMulSmall(b, q)), q |-> Append(s.q, q)]

\* one step of a division loop: by a small divisor, or by a long one
DivStep(small, a, b, s) == IF small THEN DivSmallStep(a, b, s) ELSE LongDivStep(a, b, s)
\* the division loop: DivStep applied n times to s.  Every loop state is a
\* record with a field i >= 0.  The loop is cut into eight parts that are
\* evaluated one after the other, so the evaluation depth is logarithmic in n.
RECURSIVE Iter(_, _, _, _, _)
Iter(small, a, b, n, s) ==
    IF n <= 1 THEN (IF n = 1 THEN DivStep(small, a, b, s) ELSE s)
    ELSE LET h == (n + 7) \div 8
             t1 == Iter(small, a, b, h, s)
             t2 == Iter(small, a, b, IF n - h < h THEN n - h ELSE h, t1)
             t3 == Iter(small, a, b, IF n - 2 * h < h THEN n - 2 * h ELSE h, t2)
             t4 == Iter(small, a, b, IF n - 3 * h < h THEN n - 3 * h ELSE h, t3)
             t5 == Iter(small, a, b, IF n - 4 * h < h THEN n - 4 * h ELSE h, t4)
             t6 == Iter(small, a, b, IF n - 5 * h < h THEN n - 5 * h ELSE h, t5)
             t7 == Iter(small, a, b, IF n - 6 * h < h THEN n - 6 * h ELSE h, t6)
         IN IF t1.i < 0 \/ t2.i < 0 \/ t3.i < 0 \/ t4.i < 0 \/ t5.i < 0 \/ t6.i < 0
                \/ t7.i < 0
            THEN s
            ELSE Iter(small, a, b, n - 7 * h, t7)

NDivModSmallImpl(a, k) ==
    LET x == Iter(TRUE, a, k, Len(a), [i |-> 1, r |-> 0, q |-> <<>>])
    IN [q |-> Trim(Reverse(x.q)), r |-> x.r]
LongDivImpl(a, b) ==
    LET f == Radix \div (b[Len(b)] + 1)
        an == NMulSmall(a, f)
        bn == NMulSmall(b, f)
        x == Iter(FALSE, an, bn, Len(an) - Len(bn) + 1,
                  [i |-> 1, rem |-> SubSeq(an, Len(an) - Len(bn) + 2, Len(an)), q |-> <<>>])
    IN [q |-> Trim(Reverse(x.q)), rem |-> x.rem, f |-> f]

\* a div b for b # 0
NDiv(a, b) == IF NCmp(a, b) = -1 THEN <<>> ELSE LongDiv(a, b).q
\* [q |-> a div b, r |-> a mod b] for b # 0
NDivMod(a, b) ==
    IF NCmp(a, b) = -1 THEN [q |-> <<>>, r |-> a]
    ELSE LET x == LongDiv(a, b) IN [q |-> x.q, r |-> NDivModSmall(x.rem, x.f).q]

Pow10Small(k) == IF k = 0 THEN 1 ELSE IF k = 1 THEN 10 ELSE 100
NPow10(k) == [i \in 1..(k \div LimbDigits) |-> 0] \o <<Pow10Small(k % LimbDigits)>>
NMulPow10(a, k) == NShl(NMulSmall(a, Pow10Small(k % LimbDigits)), k \div LimbDigits)
\* a div 10^k
NDivPow10(a, k) ==
    NDivExactRadix(SubSeq(a, (k \div LimbDigits) + 1, Len(a)), Pow10Small(k % LimbDigits))

SmallDigits(x) == IF x >= 100 THEN 3 ELSE IF x >= 10 THEN 2 ELSE 1
\* count of decimal digits (1 for zero, as count_decimal_digits)
NDigits(a) == IF a = <<>> THEN 1 ELSE LimbDigits * (Len(a) - 1) + SmallDigits(a[Len(a)])

\* BigInt::sqrt, the truncated integer square root: Newton's iteration from a
\* starting value x not below the root, until it stops decreasing; the start for
\* the top len limbs is the root of their top half, plus one
RECURSIVE SqrtNewton(_, _)
SqrtNewton(n, x) ==
    LET y == NDivExactRadix(NAdd(x, NDiv(n, x)), 2)
    IN IF NLe(x, y) THEN x ELSE SqrtNewton(n, y)
RECURSIVE SqrtTop(_, _)
SqrtTop(n, len) ==
    LET m == SubSeq(n, Len(n) - len + 1, Len(n))
        half == len - 2 * (len \div 4)
        r == SqrtTop(n, half)
    IN IF len <= 3 THEN SqrtNewton(m, NPow10((NDigits(m) + 1) \div 2))
       ELSE IF r = <<>> THEN SqrtNewton(m, NPow10((NDigits(m) + 1) \div 2))
       ELSE SqrtNewton(m, NShl(NAdd(r, <<1>>), (len - half) \div 2))
NSqrtImpl(n) == IF n = <<>> THEN <<>> ELSE SqrtTop(n, Len(n))

(***************************************************************************)
(* BigDecimal of the bigdecimal crate: sign, int_val (a magnitude) and     *)
(* scale; the value is int_val / 10^scale.  Addition, subtraction and      *)
(* multiplication are exact; division and square root keep                 *)
(* DEFAULT_PRECISION significant digits.  Scales stay non-negative here.   *)
(***************************************************************************)
DEFAULT_PRECISION == 10 * 10

BdNew(neg, int, scale) == [neg |-> neg /\ int # <<>>, int |-> int, scale |-> scale]
BdFromNat(n) == BdNew(FALSE, n, 0)
BdFromInt(k) == IF k < 0 THEN BdNew(TRUE, NFromInt(-k), 0) ELSE BdNew(FALSE, NFromInt(k), 0)
BdIsNegative(x) == x.neg
BdIsZero(x) == x.int = <<>>
BdNeg(x) == BdNew(~x.neg, x.int, x.scale)

\* int_val of x brought to scale m >= x.scale
BdAligned(x, m) == NMulPow10(x.int, m - x.scale)
BdCmpAbs(x, y) ==
    LET m == Max2(x.scale, y.scale) IN NCmp(BdAligned(x, m), BdAligned(y, m))
BdCmpImpl(x, y) ==
    IF x.neg # y.neg THEN (IF x.neg THEN -1 ELSE 1)
    ELSE IF x.neg THEN -BdCmpAbs(x, y) ELSE BdCmpAbs(x, y)
BdEq(x, y) == BdCmp(x, y) = 0
BdLt(x, y) == BdCmp(x, y) = -1
BdLe(x, y) == BdCmp(x, y) # 1

BdAddImpl(x, y) ==
    LET m == Max2(x.scale, y.scale)
        xi == BdAligned(x, m)
        yi == BdAligned(y, m)
    IN IF x.neg = y.neg THEN BdNew(x.neg, NAdd(xi, yi), m)
       ELSE IF NCmp(xi, yi) >= 0 THEN BdNew(x.neg, NSub(xi, yi), m)
       ELSE BdNew(y.neg, NSub(yi, xi), m)
BdSub(x, y) == BdAdd(x, BdNeg(y))
BdMulImpl(x, y) == BdNew(x.neg # y.neg, NMul(x.int, y.int), x.scale + y.scale)
BdSquare(x) == BdMul(x, x)
BdAbs(x) == BdNew(FALSE, x.int, x.scale)

\* the count of trailing zero decimal digits of a # 0, at most cap
DecimalDigit(a, k) == (a[(k \div LimbDigits) + 1] \div Pow10Small(k % LimbDigits)) % 10
TrailingZeros(a, cap) ==
    CHOOSE k \in 0..cap :
        /\ k = cap \/ DecimalDigit(a, k) # 0
        /\ \A j \in 0..(k - 1) : DecimalDigit(a, j) = 0

\* impl_division of the bigdecimal crate on magnitudes: the numerator is shifted
\* until it is not below the denominator; the first quotient's digits count as
\* precision, further digits are produced until max_precision is reached or the
\* remainder is zero, and the last digit is rounded half up on the next digit
impl_division(neg, num, den, scale, max_precision) ==
    IF num = <<>> THEN BdNew(FALSE, <<>>, 0)
    ELSE LET d0 == Max2(0, NDigits(den) - NDigits(num))
             k0 == IF NLt(NMulPow10(num, d0), den) THEN d0 + 1 ELSE d0
             num1 == NMulPow10(num, k0)
             first == NDiv(num1, den)
             e == Max2(0, max_precision - NDigits(first))
             qr == NDivMod(NMulPow10(num1, e), den)
         IN IF qr.r = <<>>
            THEN LET z == TrailingZeros(qr.q, e)
                 IN BdNew(neg, NDivPow10(qr.q, z), scale + k0 + e - z)
            ELSE IF NLe(den, NMulSmall(qr.r, 2))
                 THEN BdNew(neg, NAdd(qr.q, <<1>>), scale + k0 + e)
                 ELSE BdNew(neg, qr.q, scale + k0 + e)

\* x / y for y # 0 (the Div of BigDecimal panics on a zero divisor)
BdDivImpl(x, y) ==
    IF BdIsZero(x) \/ (y.int = <<1>> /\ y.scale = 0 /\ ~y.neg) THEN x
    ELSE IF x.int = y.int THEN BdNew(x.neg # y.neg, <<1>>, x.scale - y.scale)
    ELSE impl_division(x.neg # y.neg, x.int, y.int, x.scale - y.scale, DEFAULT_PRECISION)

\* BigDecimal::sqrt of x >= 0, to DEFAULT_PRECISION significant digits, truncated
BdSqrtImpl(x) ==
    IF BdIsZero(x) THEN x
    ELSE LET need == Max2(0, 2 * DEFAULT_PRECISION - NDigits(x.int))
             k == IF (x.scale + need) % 2 = 0 THEN need ELSE need + 1
             r == NSqrt(NMulPow10(x.int, k))
             cut == Max2(0, NDigits(r) - DEFAULT_PRECISION)
         IN BdNew(FALSE, NDivPow10(r, cut), ((x.scale + k) \div 2) - cut)

\* BigDecimal::to_bigint: truncation toward zero; the result is [neg, mag]
BdToBigInt(x) ==
    LET mag == IF x.scale < 0 THEN NMulPow10(x.int, -x.scale)
               ELSE NDivPow10(x.int, x.scale)
    IN [neg |-> x.neg /\ mag # <<>>, mag |-> mag]

(***************************************************************************)
(* Results: Ok(value), Err(error) and a panic (an unrecoverable abort).    *)
(***************************************************************************)
Ok(v) == [tag |-> "Ok", val |-> v]
Err(e) == [tag |-> "Err", err |-> e]
Panic(msg) == [tag |-> "Panic", msg |-> msg]
IsOk(r) == r.tag = "Ok"

(***************************************************************************)
(* I24 ticks.  Signed::add and Signed::sub of alloy_primitives wrap on     *)
(* overflow and debug_assert that there was none: a debug build panics,   *)
(* a release build keeps the wrapped value.                                *)
(***************************************************************************)
I24_MIN == -8388608
I24_MAX == 8388607
I24Wrap(x) == ((x - I24_MIN) % (I24_MAX - I24_MIN + 1)) + I24_MIN
I24Overflows(x) == x < I24_MIN \/ x > I24_MAX
I24Add(a, b, build) ==
    IF I24Overflows(a + b) /\ build = "debug" THEN Panic("overflow") ELSE Ok(I24Wrap(a + b))
I24Sub(a, b, build) ==
    IF I24Overflows(a - b) /\ build = "debug" THEN Panic("overflow") ELSE Ok(I24Wrap(a - b))

(***************************************************************************)
(* The tick-math oracle.  get_sqrt_ratio_at_tick is given by its values on *)
(* the ticks of TickSeq: windows at MIN_TICK, at 0 and at MAX_TICK, the    *)
(* two ticks of the repository's test, and the ticks the calls below reach *)
(* from the inputs drawn; get_tick_at_sqrt_ratio is its floor inverse.     *)
(***************************************************************************)
MIN_TICK == -887272
MAX_TICK == 887272
Q96 == <<336, 950, 543, 593, 337, 264, 514, 162, 228, 79>>
Q192 == NMul(Q96, Q96)
ONE == <<1>>
MIN_SQRT_RATIO == <<739, 128, 295, 4>>
MAX_SQRT_RATIO ==
    <<342, 970, 723, 378, 822, 988, 203, 52, 273, 287, 103, 210, 485, 703, 446, 461, 1>>
TickSeq ==
    <<-887272, -887271, -887270, -887269, -887268, -887267, -887266, -887265,
      -887264, -887263, -887262, -887261, -887260, -887259, -887245, -887218,
      -887164, -887056, -886839, -886406, -885540, -883807, -880341, -873409,
      -859545, -831818, -776363, -665454, -443636, -443635, -443634, -443633,
      -443630, -443623, -443609, -443582, -443528, -443420, -443203, -442770,
      -441904, -440171, -436705, -429773, -415909, -388182, -332727, -221818,
      -110909, -55455, -27728, -13864, -12131, -11265, -11211, -11198,
      -11195, -11193, -11192, -11191, -11190, -11188, -11184, -11157,
      -11049, -10832, -10398, -6932, -3466, -1733, -867, -434,
      -217, -109, -55, -28, -14, -12, -11, -10,
      -9, -8, -7, -6, -5, -4, -3, -2,
      -1, 0, 1, 2, 3, 4, 5, 6,
      7, 8, 9, 10, 11, 12, 13, 27,
      54, 108, 216, 433, 866, 1732, 3465, 6931,
      13863, 27727, 55454, 110909, 221818, 249545, 253010, 253226,
      253280, 253307, 253320, 253321, 253323, 253327, 253334, 253443,
      253876, 254743, 256476, 258209, 258642, 258858, 258912, 258939,
      258952, 258959, 258960, 258962, 258966, 259075, 259942, 260808,
      261241, 261458, 261485, 261491, 261494, 261495, 261496, 261498,
      261512, 261566, 261675, 263408, 264274, 264490, 264598, 264599,
      264600, 264601, 264604, 264611, 264625, 264652, 264707, 265141,
      266874, 270340, 277272, 332727, 388181, 415908, 429772, 436704,
      440170, 441903, 442769, 443202, 443419, 443527, 443581, 443608,
      443622, 443629, 443632, 443634, 443635, 443636, 443637, 443638,
      443639, 443642, 443649, 443663, 443690, 443744, 443852, 444069,
      444502, 445368, 447101, 450567, 457499, 471363, 499090, 554545,
      665454, 776363, 831818, 859545, 873409, 875142, 876008, 876062,
      876075, 876076, 876077, 876078, 876079, 876080, 876082, 876089,
      876116, 876224, 876441, 876875, 880341, 883807, 885540, 886406,
      886839, 887056, 887164, 887218, 887245, 887259, 887260, 887261,
      887262, 887263, 887264, 887265, 887266, 887267, 887268, 887269,
      887270, 887271, 887272>>
SqrtRatioSeq ==
    <<<<739, 128, 295, 4>>,
      <<490, 343, 295, 4>>,
      <<252, 558, 295, 4>>,
      <<24, 773, 295, 4>>,
      <<807, 987, 295, 4>>,
      <<601, 202, 296, 4>>,
      <<406, 417, 296, 4>>,
      <<222, 632, 296, 4>>,
      <<48, 847, 296, 4>>,
      <<885, 61, 297, 4>>,
      <<733, 276, 297, 4>>,
      <<591, 491, 297, 4>>,
      <<460, 706, 297, 4>>,
      <<340, 921, 297, 4>>,
      <<788, 930, 300, 4>>,
      <<675, 740, 306, 4>>,
      <<4, 384, 318, 4>>,
      <<181, 765, 341, 4>>,
      <<441, 127, 389, 4>>,
      <<300, 183, 485, 4>>,
      <<559, 647, 683, 4>>,
      <<476, 565, 107, 5>>,
      <<782, 980, 73, 6>>,
      <<4, 984, 589, 8>>,
      <<28, 280, 180, 17>>,
      <<426, 180, 720, 68>>,
      <<729, 790, 547, 99, 1>>,
      <<14, 877, 911, 482, 281>>,
      <<728, 882, 788, 764, 90, 447, 18>>,
      <<587, 411, 269, 96, 13, 448, 18>>,
      <<616, 361, 865, 473, 935, 448, 18>>,
      <<529, 38, 579, 897, 857, 449, 18>>,
      <<427, 489, 449, 445, 625, 452, 18>>,
      <<610, 125, 698, 671, 84, 459, 18>>,
      <<928, 227, 22, 908, 9, 472, 18>>,
      <<150, 527, 132, 713, 962, 496, 18>>,
      <<112, 201, 933, 490, 969, 546, 18>>,
      <<699, 823, 943, 993, 388, 647, 18>>,
      <<973, 729, 746, 527, 804, 850, 18>>,
      <<150, 615, 495, 548, 353, 263, 19>>,
      <<648, 630, 923, 31, 735, 115, 20>>,
      <<601, 387, 962, 400, 414, 936, 21>>,
      <<377, 112, 666, 529, 58, 87, 26>>,
      <<207, 411, 348, 994, 6, 893, 36>>,
      <<497, 23, 46, 84, 354, 787, 73>>,
      <<854, 585, 932, 490, 380, 145, 295>>,
      <<22, 580, 499, 400, 47, 433, 722, 4>>,
      <<521, 810, 26, 540, 934, 179, 937, 208, 1>>,
      <<285, 14, 980, 566, 877, 938, 463, 486, 309>>,
      <<666, 963, 932, 234, 928, 509, 3, 648, 951, 4>>,
      <<412, 391, 770, 473, 615, 570, 180, 321, 806, 19>>,
      <<997, 757, 327, 359, 482, 603, 802, 361, 613, 39>>,
      <<28, 22, 504, 645, 251, 167, 433, 775, 198, 43>>,
      <<494, 226, 793, 146, 23, 657, 109, 272, 110, 45>>,
      <<932, 826, 619, 884, 952, 434, 313, 228, 232, 45>>,
      <<399, 862, 500, 876, 391, 312, 348, 637, 261, 45>>,
      <<288, 196, 196, 45, 950, 642, 763, 426, 268, 45>>,
      <<907, 715, 200, 340, 314, 319, 606, 953, 272, 45>>,
      <<345, 881, 783, 680, 267, 411, 197, 217, 275, 45>>,
      <<979, 735, 634, 271, 946, 679, 901, 480, 277, 45>>,
      <<733, 959, 551, 807, 8, 131, 719, 744, 279, 45>>,
      <<929, 714, 432, 908, 921, 602, 693, 272, 284, 45>>,
      <<556, 620, 843, 428, 369, 984, 0, 330, 293, 45>>,
      <<111, 368, 951, 320, 294, 386, 227, 514, 354, 45>>,
      <<33, 515, 368, 665, 921, 721, 753, 78, 600, 45>>,
      <<330, 722, 894, 1, 37, 400, 413, 508, 97, 46>>,
      <<55, 631, 547, 141, 422, 487, 598, 705, 108, 47>>,
      <<413, 753, 759, 188, 288, 300, 241, 262, 22, 56>>,
      <<906, 362, 156, 133, 368, 956, 349, 375, 622, 66>>,
      <<591, 708, 238, 256, 698, 268, 424, 380, 652, 72>>,
      <<879, 256, 217, 780, 827, 624, 619, 165, 867, 75>>,
      <<352, 919, 481, 830, 264, 263, 173, 515, 527, 77>>,
      <<5, 995, 538, 937, 484, 733, 113, 226, 373, 78>>,
      <<928, 176, 246, 507, 875, 63, 2, 565, 797, 78>>,
      <<592, 322, 540, 209, 836, 643, 237, 595, 10, 79>>,
      <<155, 868, 37, 7, 86, 966, 231, 326, 117, 79>>,
      <<370, 673, 496, 325, 354, 736, 977, 724, 172, 79>>,
      <<37, 223, 929, 960, 127, 234, 250, 642, 180, 79>>,
      <<723, 514, 397, 335, 785, 375, 183, 601, 184, 79>>,
      <<960, 315, 725, 373, 151, 459, 314, 560, 188, 79>>,
      <<475, 54, 931, 913, 122, 494, 643, 519, 192, 79>>,
      <<491, 688, 862, 288, 597, 490, 170, 479, 196, 79>>,
      <<580, 447, 222, 326, 472, 458, 895, 438, 200, 79>>,
      <<760, 574, 591, 348, 646, 407, 818, 398, 204, 79>>,
      <<825, 69, 455, 173, 18, 348, 939, 358, 208, 79>>,
      <<917, 433, 226, 113, 487, 289, 258, 319, 212, 79>>,
      <<332, 415, 272, 975, 952, 241, 775, 279, 216, 79>>,
      <<561, 756, 937, 61, 316, 215, 490, 240, 220, 79>>,
      <<574, 942, 569, 170, 477, 219, 403, 201, 224, 79>>,
      <<336, 950, 543, 593, 337, 264, 514, 162, 228, 79>>,
      <<568, 999, 286, 118, 799, 359, 823, 123, 232, 79>>,
      <<732, 304, 303, 27, 764, 515, 330, 85, 236, 79>>,
      <<268, 828, 198, 98, 135, 742, 35, 47, 240, 79>>,
      <<62, 35, 706, 603, 815, 48, 939, 8, 244, 79>>,
      <<151, 648, 708, 311, 709, 445, 40, 971, 247, 79>>,
      <<666, 405, 266, 485, 720, 942, 339, 933, 251, 79>>,
      <<15, 819, 639, 882, 753, 549, 837, 895, 255, 79>>,
      <<306, 932, 314, 757, 714, 276, 533, 858, 259, 79>>,
      <<997, 82, 28, 858, 508, 133, 427, 821, 263, 79>>,
      <<799, 663, 790, 428, 42, 130, 519, 784, 267, 79>>,
      <<806, 885, 913, 208, 222, 276, 809, 747, 271, 79>>,
      <<866, 542, 33, 433, 955, 581, 297, 711, 275, 79>>,
      <<194, 777, 134, 831, 149, 57, 984, 674, 279, 79>>,
      <<233, 767, 971, 607, 802, 52, 408, 187, 335, 79>>,
      <<325, 157, 662, 136, 761, 784, 875, 356, 442, 79>>,
      <<778, 657, 567, 351, 393, 530, 314, 130, 657, 79>>,
      <<480, 235, 558, 662, 804, 100, 690, 420, 88, 80>>,
      <<17, 88, 871, 920, 891, 826, 335, 67, 962, 80>>,
      <<503, 146, 488, 188, 364, 482, 587, 918, 733, 82>>,
      <<929, 568, 941, 144, 604, 319, 379, 800, 394, 86>>,
      <<784, 496, 525, 219, 137, 807, 762, 411, 214, 94>>,
      <<553, 484, 925, 98, 813, 951, 517, 957, 40, 112>>,
      <<227, 288, 419, 482, 661, 937, 532, 280, 451, 158>>,
      <<769, 664, 64, 99, 788, 402, 623, 316, 908, 316>>,
      <<768, 815, 951, 845, 753, 12, 996, 932, 615, 267, 1>>,
      <<481, 523, 185, 716, 369, 812, 52, 307, 314, 282, 20>>,
      <<406, 136, 671, 448, 567, 214, 836, 790, 66, 248, 192, 5>>,
      <<886, 925, 473, 412, 50, 267, 54, 924, 273, 708, 768, 20>>,
      <<489, 33, 57, 707, 811, 382, 893, 313, 962, 172, 697, 24>>,
      <<826, 230, 403, 950, 433, 899, 715, 299, 488, 334, 965, 24>>,
      <<285, 940, 706, 602, 575, 766, 616, 809, 592, 828, 32, 25>>,
      <<431, 438, 359, 627, 2, 180, 716, 957, 40, 644, 66, 25>>,
      <<483, 704, 330, 1, 697, 221, 119, 919, 840, 941, 82, 25>>,
      <<597, 64, 135, 861, 400, 462, 55, 659, 956, 195, 84, 25>>,
      <<96, 178, 221, 101, 947, 367, 721, 254, 376, 704, 86, 25>>,
      <<335, 893, 320, 904, 767, 74, 16, 997, 967, 721, 91, 25>>,
      <<121, 377, 547, 431, 163, 958, 539, 503, 168, 505, 100, 25>>,
      <<682, 441, 367, 736, 287, 39, 420, 871, 496, 669, 237, 25>>,
      <<168, 910, 954, 744, 5, 208, 895, 107, 774, 994, 789, 25>>,
      <<862, 194, 39, 307, 28, 852, 217, 17, 233, 519, 932, 26>>,
      <<521, 446, 230, 93, 568, 859, 959, 436, 160, 187, 370, 29>>,
      <<801, 48, 439, 946, 268, 849, 109, 878, 919, 488, 28, 32>>,
      <<644, 682, 932, 188, 716, 448, 409, 903, 978, 430, 729, 32>>,
      <<677, 449, 194, 290, 890, 177, 797, 483, 639, 806, 84, 33>>,
      <<245, 639, 615, 861, 701, 993, 857, 912, 841, 251, 174, 33>>,
      <<581, 96, 695, 962, 43, 153, 46, 407, 83, 65, 219, 33>>,
      <<164, 83, 45, 615, 539, 513, 908, 509, 414, 663, 240, 33>>,
      <<375, 406, 26, 393, 462, 226, 726, 56, 101, 299, 252, 33>>,
      <<117, 523, 788, 922, 263, 325, 483, 448, 674, 961, 253, 33>>,
      <<961, 801, 180, 449, 596, 173, 928, 615, 70, 287, 257, 33>>,
      <<622, 602, 206, 450, 390, 65, 922, 602, 860, 938, 263, 33>>,
      <<126, 480, 515, 912, 243, 68, 257, 792, 123, 713, 445, 33>>,
      <<198, 795, 653, 994, 487, 957, 23, 448, 125, 394, 927, 34>>,
      <<673, 303, 60, 195, 854, 726, 204, 350, 587, 891, 472, 36>>,
      <<591, 189, 534, 982, 690, 21, 334, 571, 201, 99, 271, 37>>,
      <<16, 264, 204, 918, 374, 185, 182, 513, 968, 671, 677, 37>>,
      <<700, 833, 485, 214, 177, 972, 969, 395, 628, 568, 728, 37>>,
      <<93, 468, 785, 362, 676, 183, 276, 879, 330, 888, 739, 37>>,
      <<236, 216, 864, 960, 328, 661, 130, 651, 455, 549, 745, 37>>,
      <<801, 788, 894, 859, 705, 347, 335, 944, 685, 436, 747, 37>>,
      <<663, 302, 760, 93, 395, 774, 695, 596, 10, 324, 749, 37>>,
      <<672, 678, 269, 533, 972, 443, 755, 997, 942, 98, 753, 37>>,
      <<965, 379, 263, 594, 91, 509, 122, 730, 41, 534, 779, 37>>,
      <<404, 776, 718, 300, 504, 977, 750, 378, 500, 671, 881, 37>>,
      <<848, 665, 581, 591, 212, 828, 768, 187, 845, 679, 88, 38>>,
      <<551, 587, 937, 731, 782, 486, 261, 104, 194, 94, 536, 41>>,
      <<74, 352, 897, 519, 489, 628, 530, 981, 116, 19, 374, 43>>,
      <<585, 317, 166, 596, 907, 877, 737, 628, 552, 973, 844, 43>>,
      <<103, 832, 430, 202, 31, 587, 184, 303, 920, 364, 82, 44>>,
      <<48, 963, 103, 407, 504, 571, 998, 448, 983, 568, 84, 44>>,
      <<137, 75, 551, 905, 489, 905, 214, 795, 156, 773, 86, 44>>,
      <<421, 673, 544, 557, 361, 471, 343, 347, 440, 977, 88, 44>>,
      <<467, 84, 587, 152, 423, 516, 305, 294, 952, 590, 95, 44>>,
      <<346, 390, 842, 668, 164, 997, 172, 406, 338, 26, 111, 44>>,
      <<482, 327, 304, 38, 259, 703, 628, 702, 321, 913, 141, 44>>,
      <<451, 872, 788, 970, 661, 992, 190, 707, 163, 542, 201, 44>>,
      <<536, 889, 289, 717, 250, 605, 999, 10, 601, 257, 323, 44>>,
      <<400, 362, 349, 226, 128, 314, 834, 41, 734, 534, 295, 45>>,
      <<359, 131, 543, 835, 240, 629, 346, 563, 20, 243, 395, 49>>,
      <<301, 81, 183, 841, 885, 640, 226, 587, 158, 441, 741, 58>>,
      <<858, 62, 353, 946, 54, 663, 241, 272, 138, 697, 73, 83>>,
      <<119, 456, 717, 24, 413, 435, 613, 238, 799, 259, 209, 329, 1>>,
      <<167, 742, 24, 503, 663, 8, 80, 952, 342, 545, 766, 266, 21>>,
      <<596, 958, 233, 116, 580, 332, 423, 722, 340, 982, 902, 65, 85>>,
      <<922, 688, 23, 692, 708, 517, 692, 756, 160, 884, 895, 134, 170>>,
      <<846, 9, 839, 848, 888, 282, 47, 180, 93, 125, 262, 609, 240>>,
      <<489, 750, 264, 252, 678, 11, 637, 801, 366, 632, 545, 135, 286>>,
      <<404, 710, 772, 7, 666, 877, 970, 366, 538, 486, 733, 33, 312>>,
      <<899, 220, 115, 790, 738, 83, 816, 488, 686, 270, 871, 840, 325>>,
      <<415, 724, 759, 458, 625, 846, 76, 648, 84, 282, 884, 971, 332>>,
      <<256, 134, 114, 749, 251, 1, 634, 750, 509, 848, 116, 604, 336>>,
      <<708, 477, 857, 638, 684, 488, 466, 112, 188, 244, 604, 426, 338>>,
      <<74, 407, 780, 833, 66, 127, 887, 346, 520, 943, 544, 341, 339>>,
      <<657, 620, 720, 224, 838, 729, 760, 242, 407, 458, 942, 799, 339>>,
      <<698, 884, 636, 337, 553, 386, 453, 231, 10, 788, 873, 37, 340>>,
      <<999, 295, 355, 703, 771, 571, 406, 855, 236, 921, 901, 156, 340>>,
      <<396, 723, 268, 6, 767, 353, 130, 164, 92, 732, 926, 207, 340>>,
      <<47, 597, 170, 386, 802, 766, 346, 373, 765, 524, 947, 241, 340>>,
      <<916, 527, 651, 289, 642, 220, 2, 441, 860, 196, 959, 258, 340>>,
      <<834, 693, 584, 65, 479, 101, 884, 849, 517, 719, 971, 275, 340>>,
      <<423, 555, 664, 355, 864, 320, 46, 127, 780, 92, 985, 292, 340>>,
      <<749, 559, 276, 212, 889, 89, 669, 801, 689, 316, 999, 309, 340>>,
      <<776, 927, 152, 441, 496, 25, 59, 405, 289, 391, 14, 327, 340>>,
      <<282, 442, 134, 884, 723, 321, 796, 132, 653, 719, 64, 378, 340>>,
      <<935, 932, 796, 929, 874, 318, 201, 929, 589, 934, 211, 497, 340>>,
      <<556, 880, 127, 26, 147, 104, 645, 242, 277, 499, 631, 735, 340>>,
      <<208, 831, 121, 631, 395, 946, 1, 960, 725, 207, 912, 195, 341>>,
      <<695, 575, 603, 862, 883, 81, 794, 786, 935, 766, 339, 118, 342>>,
      <<851, 724, 650, 346, 796, 633, 548, 959, 852, 11, 683, 970, 343>>,
      <<7, 200, 133, 627, 68, 549, 771, 377, 806, 263, 896, 722, 347>>,
      <<289, 398, 189, 517, 610, 158, 444, 12, 354, 421, 796, 332, 355>>,
      <<373, 66, 588, 62, 39, 118, 127, 873, 867, 489, 868, 55, 371>>,
      <<279, 89, 725, 869, 526, 994, 8, 154, 806, 459, 212, 640, 404>>,
      <<16, 805, 372, 943, 678, 534, 491, 4, 595, 541, 204, 203, 481>>,
      <<669, 842, 76, 580, 390, 794, 525, 60, 633, 902, 277, 530, 680>>,
      <<971, 129, 753, 355, 266, 188, 412, 190, 35, 272, 275, 85, 361, 1>>,
      <<14, 646, 169, 755, 575, 963, 811, 299, 969, 681, 655, 266, 444, 5>>,
      <<644, 555, 723, 956, 5, 454, 669, 357, 280, 113, 472, 239, 110, 87>>,
      <<250, 89, 526, 815, 263, 292, 628, 763, 424, 974, 603, 527, 116, 300, 22>>,
      <<17, 246, 718, 533, 211, 55, 250, 332, 879, 324, 846, 214, 8, 803, 708, 5>>,
      <<355, 979, 785, 417, 580, 893, 650, 138, 520, 763, 418, 591, 979, 916, 342, 91>>,
      <<823, 669, 311, 332, 330, 119, 304, 50, 519, 871, 289, 676, 860, 671, 366, 365>>,
      <<155, 332, 214, 932, 97, 734, 735, 442, 965, 644, 32, 575, 238, 615, 746, 730>>,
      <<760, 518, 658, 683, 259, 298, 330, 579, 801, 228, 961, 630, 641, 643, 886, 796>>,
      <<676, 779, 96, 537, 762, 375, 754, 168, 188, 847, 186, 415, 204, 971, 147, 832>>,
      <<305, 613, 485, 678, 28, 47, 517, 71, 292, 837, 942, 539, 1, 694, 397, 834>>,
      <<664, 144, 815, 64, 300, 234, 712, 499, 90, 425, 992, 602, 673, 201, 940, 834>>,
      <<207, 583, 339, 499, 330, 339, 332, 770, 773, 993, 600, 63, 640, 947, 981, 834>>,
      <<555, 976, 682, 358, 564, 894, 23, 246, 514, 734, 352, 770, 693, 695, 23, 835>>,
      <<634, 410, 369, 478, 447, 443, 710, 77, 145, 340, 607, 827, 834, 445, 65, 835>>,
      <<236, 490, 339, 877, 851, 384, 527, 165, 619, 766, 729, 339, 63, 198, 107, 835>>,
      <<6, 225, 170, 885, 49, 906, 400, 26, 678, 103, 90, 411, 379, 952, 148, 835>>,
      <<278, 617, 250, 196, 61, 50, 851, 456, 979, 209, 31, 649, 274, 467, 232, 835>>,
      <<654, 686, 111, 962, 277, 592, 894, 484, 321, 507, 695, 442, 181, 835, 524, 835>>,
      <<962, 66, 781, 507, 693, 221, 360, 63, 953, 850, 342, 328, 953, 498, 653, 836>>,
      <<878, 44, 642, 780, 846, 934, 725, 576, 543, 529, 457, 85, 138, 421, 183, 841>>,
      <<22, 430, 419, 731, 24, 194, 117, 814, 772, 453, 484, 879, 634, 492, 359, 850>>,
      <<988, 766, 809, 401, 158, 212, 747, 873, 375, 817, 815, 333, 796, 19, 13, 869>>,
      <<472, 296, 186, 250, 261, 690, 58, 127, 600, 249, 599, 279, 436, 158, 441, 33, 1>>,
      <<801, 505, 791, 668, 603, 462, 562, 418, 884, 470, 893, 717, 648, 158, 981, 228, 1>>,
      <<970, 689, 971, 758, 387, 437, 889, 500, 292, 404, 785, 598, 387, 499, 216, 340, 1>>,
      <<565, 276, 291, 385, 40, 24, 337, 277, 166, 38, 622, 839, 56, 555, 519, 399, 1>>,
      <<124, 849, 389, 59, 903, 561, 682, 627, 70, 618, 195, 724, 427, 978, 147, 430, 1>>,
      <<579, 487, 240, 8, 616, 3, 657, 94, 547, 298, 690, 413, 304, 785, 748, 445, 1>>,
      <<279, 413, 825, 908, 968, 0, 546, 727, 507, 327, 810, 295, 316, 553, 576, 453, 1>>,
      <<115, 427, 851, 744, 205, 422, 310, 130, 697, 423, 568, 215, 318, 316, 506, 457, 1>>,
      <<368, 63, 10, 481, 48, 197, 280, 853, 562, 296, 521, 735, 87, 180, 475, 459, 1>>,
      <<630, 875, 258, 629, 982, 986, 431, 876, 190, 388, 494, 671, 254, 119, 497, 460, 1>>,
      <<571, 198, 815, 367, 105, 256, 833, 650, 607, 286, 104, 104, 285, 142, 570, 460, 1>>,
      <<351, 130, 118, 439, 754, 667, 227, 208, 594, 533, 961, 596, 966, 168, 643, 460, 1>>,
      <<43, 261, 842, 236, 138, 954, 262, 254, 128, 668, 614, 332, 299, 199, 716, 460, 1>>,
      <<731, 331, 987, 468, 982, 903, 487, 385, 777, 224, 621, 493, 283, 233, 789, 460, 1>>,
      <<173, 59, 819, 454, 636, 462, 344, 736, 109, 971, 547, 262, 919, 270, 862, 460, 1>>,
      <<325, 114, 461, 128, 703, 854, 898, 450, 79, 591, 970, 821, 206, 312, 935, 460, 1>>,
      <<804, 135, 927, 759, 770, 869, 821, 841, 968, 159, 474, 354, 146, 357, 8, 461, 1>>,
      <<775, 559, 248, 879, 374, 405, 593, 243, 789, 827, 652, 42, 738, 405, 81, 461, 1>>,
      <<938, 526, 446, 497, 117, 936, 47, 690, 872, 660, 109, 69, 982, 457, 154, 461, 1>>,
      <<294, 336, 947, 107, 829, 78, 299, 440, 757, 37, 457, 616, 878, 513, 227, 461, 1>>,
      <<81, 624, 435, 850, 279, 408, 998, 651, 72, 570, 316, 867, 427, 573, 300, 461, 1>>,
      <<249, 656, 254, 690, 106, 493, 784, 188, 518, 706, 318, 4, 630, 636, 373, 461, 1>>,
      <<342, 970, 723, 378, 822, 988, 203, 52, 273, 287, 103, 210, 485, 703, 446, 461, 1>>>>

TickIndex(t) == CHOOSE i \in 1..Len(TickSeq) : TickSeq[i] = t
InTable(t) == \E i \in 1..Len(TickSeq) : TickSeq[i] = t

get_sqrt_ratio_at_tick(tick) ==
    IF tick < MIN_TICK \/ tick > MAX_TICK THEN Err("InvalidTick")
    ELSE Ok(SqrtRatioSeq[TickIndex(tick)])

\* the greatest index i in lo..hi with SqrtRatioSeq[i] <= x, given SqrtRatioSeq[lo] <= x
RECURSIVE FloorIndex(_, _, _)
FloorIndex(x, lo, hi) ==
    IF lo = hi THEN lo
    ELSE LET mid == (lo + hi + 1) \div 2
         IN IF NLe(SqrtRatioSeq[mid], x) THEN FloorIndex(x, mid, hi)
            ELSE FloorIndex(x, lo, mid - 1)

\* the tick is decided by the table when the next tick is in the table too
get_tick_at_sqrt_ratio(x) ==
    IF NLt(x, MIN_SQRT_RATIO) \/ NLt(MAX_SQRT_RATIO, x) THEN Err("InvalidSqrtPrice")
    ELSE LET t == TickSeq[FloorIndex(x, 1, Len(TickSeq))]
         IN Ok(CHOOSE u \in {t} : u = MAX_TICK \/ InTable(u + 1))

\* get_amount_0_delta and get_amount_1_delta of the oracle, rounding down:
\* liquidity * 2^96 * (b - a) / b / a and liquidity * (b - a) / 2^96 for a <= b
get_amount_0_delta(a, b, liquidity) ==
    LET lo == IF NLe(a, b) THEN a ELSE b
        hi == IF NLe(a, b) THEN b ELSE a
    IN IF lo = <<>> THEN Err("InvalidPrice")
       ELSE Ok(NDiv(NDiv(NMul(NMul(liquidity, Q96), NSub(hi, lo)), hi), lo))
get_amount_1_delta(a, b, liquidity) ==
    LET lo == IF NLe(a, b) THEN a ELSE b
        hi == IF NLe(a, b) THEN b ELSE a
    IN Ok(NDiv(NMul(liquidity, NSub(hi, lo)), Q96))

(***************************************************************************)
(* Tokens, fractions and prices of uniswap_sdk_core.                       *)
(***************************************************************************)
\* WBTC and WETH of the doc examples, and a token on another chain
WBTC == [chain_id |-> 1, address |-> 1, decimals |-> 8]
WETH == [chain_id |-> 1, address |-> 2, decimals |-> 18]
OTHER_CHAIN == [chain_id |-> 2, address |-> 1, decimals |-> 0]
Tokens == {WBTC, WETH, OTHER_CHAIN}

sorts_before(a, b) ==
    IF a.chain_id # b.chain_id THEN Err("ChainIdMismatch")
    ELSE IF a.address = b.address THEN Err("EqualAddresses")
    ELSE Ok(a.address < b.address)

Fraction(numerator, denominator) == [num |-> numerator, den |-> denominator]
FracLt(x, y) == NLt(NMul(x.num, y.den), NMul(y.num, x.den))
FracLe(x, y) == NLe(NMul(x.num, y.den), NMul(y.num, x.den))

\* Price::new(base_currency, quote_currency, denominator, numerator)
PriceNew(base, quote, denominator, numerator) ==
    [base_currency |-> base, quote_currency |-> quote, num |-> numerator, den |-> denominator]
as_fraction(price) == Fraction(price.num, price.den)

(***************************************************************************)
(* src/extensions/price_tick_conversions.rs                                *)
(***************************************************************************)
MIN_PRICE == Fraction(NMul(MIN_SQRT_RATIO, MIN_SQRT_RATIO), Q192)
\* a variant of MAX_PRICE without the subtraction of one
MaxPriceInclusive == Fraction(NMul(MAX_SQRT_RATIO, MAX_SQRT_RATIO), Q192)
MAX_PRICE == Fraction(NSub(NMul(MAX_SQRT_RATIO, MAX_SQRT_RATIO), ONE), Q192)

\* the regex ^\d*\.?\d+$ on a text given as a sequence of characters; \d is
\* Unicode-aware and matches decimal digits outside ASCII as well
IsDigit(c) == c \in {"0", "1", "2", "3", "4", "5", "6", "7", "8", "9"}
IsRegexDigit(c) == IsDigit(c) \/ c = "U+0663"
AllDigits(t) == \A i \in 1..Len(t) : IsDigit(t[i])
AllRegexDigits(t) == \A i \in 1..Len(t) : IsRegexDigit(t[i])
RegexMatch(text) ==
    \E i \in 0..Len(text) : \E d \in {0, 1} :
        /\ i + d < Len(text)
        /\ AllRegexDigits(SubSeq(text, 1, i))
        /\ d = 1 => text[i + 1] = "."
        /\ AllRegexDigits(SubSeq(text, i + d + 1, Len(text)))

\* str::split_once('.')
split_once(text) ==
    IF \E i \in 1..Len(text) : text[i] = "."
    THEN LET i == CHOOSE j \in 1..Len(text) :
                     text[j] = "." /\ \A k \in 1..(j - 1) : text[k] # "."
         IN <<SubSeq(text, 1, i - 1), SubSeq(text, i + 1, Len(text))>>
    ELSE <<text, <<>>>>

DigitValue(c) ==
    CASE c = "0" -> 0 [] c = "1" -> 1 [] c = "2" -> 2 [] c = "3" -> 3 [] c = "4" -> 4
      [] c = "5" -> 5 [] c = "6" -> 6 [] c = "7" -> 7 [] c = "8" -> 8 [] c = "9" -> 9
\* BigInt::from_str on a text of decimal digits
RECURSIVE BigIntFromStr(_)
BigIntFromStr(t) ==
    IF t = <<>> THEN <<>>
    ELSE NAdd(NMulSmall(BigIntFromStr(SubSeq(t, 1, Len(t) - 1)), 10),
              NFromInt(DigitValue(t[Len(t)])))

\* a variant of parse_price whose denominator ignores the length of the fraction
ParsePriceWholeDenominator(base_token, quote_token, price) ==
    IF ~RegexMatch(price) THEN Err("Invalid price string")
    ELSE LET whole == split_once(price)[1]
             fraction == split_once(price)[2]
             without_decimals == BigIntFromStr(whole \o fraction)
             numerator == NMulPow10(without_decimals, quote_token.decimals)
             denominator == NPow10(base_token.decimals)
         IN IF ~AllDigits(whole \o fraction) THEN Err("ParseBigIntError")
            ELSE Ok(PriceNew(base_token, quote_token, denominator, numerator))

parse_price(base_token, quote_token, price) ==
    IF ~RegexMatch(price) THEN Err("Invalid price string")
    ELSE LET whole == split_once(price)[1]
             fraction == split_once(price)[2]
             decimals == Len(fraction)
             without_decimals == BigIntFromStr(whole \o fraction)
             numerator == NMulPow10(without_decimals, quote_token.decimals)
             denominator == NPow10(decimals + base_token.decimals)
         IN IF ~AllDigits(whole \o fraction) THEN Err("ParseBigIntError")
            ELSE Ok(PriceNew(base_token, quote_token, denominator, numerator))

sqrt_ratio_x96_to_price(sqrt_ratio_x96, base_token, quote_token) ==
    LET ratio_x192 == NMul(sqrt_ratio_x96, sqrt_ratio_x96)
        q192 == Q192
        sorted == sorts_before(base_token, quote_token)
    IN IF ~IsOk(sorted) THEN sorted
       ELSE IF sorted.val THEN Ok(PriceNew(base_token, quote_token, q192, ratio_x192))
       ELSE Ok(PriceNew(base_token, quote_token, ratio_x192, q192))

\* tick_to_price of the oracle: the price of the tick's sqrt ratio
tick_to_price(base_token, quote_token, tick) ==
    LET sqrt_ratio_x96 == Call1("get_sqrt_ratio_at_tick", tick)
    IN IF ~IsOk(sqrt_ratio_x96) THEN sqrt_ratio_x96
       ELSE Call3("sqrt_ratio_x96_to_price", sqrt_ratio_x96.val, base_token, quote_token)

\* encode_sqrt_ratio_x96(amount1, amount0) of the oracle: sqrt((amount1 << 192) / amount0)
encode_sqrt_ratio_x96(amount1, amount0) == NSqrt(NDiv(NMul(amount1, Q192), amount0))

\* price_to_closest_tick of the oracle: the tick of the price's sqrt ratio, or the
\* next tick when the price has reached the next tick's price
price_to_closest_tick(price) ==
    LET sorted == sorts_before(price.base_currency, price.quote_currency)
        sqrt_ratio_x96 == IF sorted.val THEN Call2("encode_sqrt_ratio_x96", price.num, price.den)
                          ELSE Call2("encode_sqrt_ratio_x96", price.den, price.num)
        tick == Call1("get_tick_at_sqrt_ratio", sqrt_ratio_x96)
        next_tick_price == Call3("tick_to_price", price.base_currency, price.quote_currency,
                                 tick.val + 1)
    IN IF ~IsOk(sorted) THEN sorted
       ELSE IF ~IsOk(tick) THEN tick
       ELSE IF ~IsOk(next_tick_price) THEN next_tick_price
       ELSE IF sorted.val
            THEN (IF FracLe(as_fraction(next_tick_price.val), as_fraction(price))
                  THEN Ok(tick.val + 1) ELSE tick)
            ELSE (IF FracLe(as_fraction(price), as_fraction(next_tick_price.val))
                  THEN Ok(tick.val + 1) ELSE tick)

\* a variant of price_to_closest_tick_safe that clamps without regard to the
\* orientation of the pair
PriceToClosestTickSafeUnoriented(price) ==
    LET sorted == sorts_before(price.base_currency, price.quote_currency)
    IN IF ~IsOk(sorted) THEN [res |-> sorted, oracle |-> FALSE, forced |-> {}]
       ELSE IF FracLt(as_fraction(price), MIN_PRICE)
            THEN [res |-> Ok(MIN_TICK), oracle |-> FALSE, forced |-> {"MIN_PRICE"}]
       ELSE IF FracLt(MAX_PRICE, as_fraction(price))
            THEN [res |-> Ok(MAX_TICK), oracle |-> FALSE,
                  forced |-> {"MIN_PRICE", "MAX_PRICE"}]
       ELSE [res |-> Call1("price_to_closest_tick", price),
             oracle |-> TRUE, forced |-> {"MIN_PRICE", "MAX_PRICE"}]

\* the result, whether the oracle was consulted, and the Lazy statics forced
price_to_closest_tick_safe(price) ==
    LET sorted == sorts_before(price.base_currency, price.quote_currency)
    IN IF ~IsOk(sorted) THEN [res |-> sorted, oracle |-> FALSE, forced |-> {}]
       ELSE IF FracLt(as_fraction(price), MIN_PRICE)
            THEN [res |-> Ok(IF sorted.val THEN MIN_TICK ELSE MAX_TICK),
                  oracle |-> FALSE, forced |-> {"MIN_PRICE"}]
       ELSE IF FracLt(MAX_PRICE, as_fraction(price))
            THEN [res |-> Ok(IF sorted.val THEN MAX_TICK ELSE MIN_TICK),
                  oracle |-> FALSE, forced |-> {"MIN_PRICE", "MAX_PRICE"}]
       ELSE [res |-> Call1("price_to_closest_tick", price),
             oracle |-> TRUE, forced |-> {"MIN_PRICE", "MAX_PRICE"}]

tick_to_big_price(tick) ==
    LET sqrt_ratio_x96 == Call1("get_sqrt_ratio_at_tick", tick)
    IN IF ~IsOk(sqrt_ratio_x96) THEN sqrt_ratio_x96
       ELSE Ok(BdDiv(BdFromNat(NMul(sqrt_ratio_x96.val, sqrt_ratio_x96.val)),
                     BdFromNat(Q192)))

\* a variant of price_to_sqrt_ratio_x96 that clamps a negative price
PriceToSqrtRatioX96Clamping(price) ==
    IF BdIsNegative(price) THEN Ok(MIN_SQRT_RATIO)
    ELSE LET price_x192 == BdMul(price, BdFromNat(Q192))
             sqrt_ratio_x96 == NSqrt(BdToBigInt(price_x192).mag)
         IN IF NLt(sqrt_ratio_x96, MIN_SQRT_RATIO) THEN Ok(MIN_SQRT_RATIO)
            ELSE IF NLt(MAX_SQRT_RATIO, sqrt_ratio_x96) THEN Ok(MAX_SQRT_RATIO)
            ELSE Ok(sqrt_ratio_x96)

price_to_sqrt_ratio_x96(price) ==
    IF BdIsNegative(price) THEN Panic("Invalid price: must be non-negative")
    ELSE LET price_x192 == BdMul(price, BdFromNat(Q192))
             sqrt_ratio_x96 == NSqrt(BdToBigInt(price_x192).mag)
         IN IF NLt(sqrt_ratio_x96, MIN_SQRT_RATIO) THEN Ok(MIN_SQRT_RATIO)
            ELSE IF NLt(MAX_SQRT_RATIO, sqrt_ratio_x96) THEN Ok(MAX_SQRT_RATIO)
            ELSE Ok(sqrt_ratio_x96)

\* the return of token0_ratio_to_price for a ratio strictly between 0 and 1: the
\* square of the root (b + sqrt(b^2 - 4ac)) / (-2a)
Token0RatioQuadratic(token0_ratio, tick_lower, tick_upper) ==
    LET one == BdFromInt(1)
        sqrt_ratio_lower_x96 == Call1("get_sqrt_ratio_at_tick", tick_lower)
        sqrt_ratio_upper_x96 == Call1("get_sqrt_ratio_at_tick", tick_upper)
        l == BdDiv(BdFromNat(sqrt_ratio_lower_x96.val), BdFromNat(Q96))
        u == BdDiv(BdFromNat(sqrt_ratio_upper_x96.val), BdFromNat(Q96))
        r == token0_ratio
        a == BdSub(r, one)
        b == BdMul(u, BdSub(one, BdMul(BdFromInt(2), r)))
        c == BdMul(BdMul(r, l), u)
        disc == BdSub(BdSquare(b), BdMul(BdMul(BdFromInt(4), a), c))
        numerator == BdAdd(b, BdSqrt(disc))
        denominator == BdMul(BdFromInt(-2), a)
    IN IF ~IsOk(sqrt_ratio_lower_x96) THEN sqrt_ratio_lower_x96
       ELSE IF ~IsOk(sqrt_ratio_upper_x96) THEN sqrt_ratio_upper_x96
       ELSE IF BdIsNegative(disc) THEN Panic("unwrap on None")
       ELSE IF BdIsZero(denominator) THEN Panic("Division by zero")
       ELSE Ok(BdSquare(BdDiv(numerator, denominator)))

\* a variant of token0_ratio_to_price with the boundary convention swapped
Token0RatioToPriceSwapped(token0_ratio, tick_lower, tick_upper) ==
    IF ~(tick_upper > tick_lower)
    THEN Panic("Invalid tick range: tickUpper must be greater than tickLower")
    ELSE IF BdIsNegative(token0_ratio) \/ BdLt(BdFromInt(1), token0_ratio)
    THEN Panic("Invalid token0ValueProportion: must be a value between 0 and 1, inclusive")
    ELSE IF BdIsZero(token0_ratio) THEN Call1("tick_to_big_price", tick_lower)
    ELSE IF BdEq(token0_ratio, BdFromInt(1)) THEN Call1("tick_to_big_price", tick_upper)
    ELSE Token0RatioQuadratic(token0_ratio, tick_lower, tick_upper)

token0_ratio_to_price(token0_ratio, tick_lower, tick_upper) ==
    IF ~(tick_upper > tick_lower)
    THEN Panic("Invalid tick range: tickUpper must be greater than tickLower")
    ELSE IF BdIsNegative(token0_ratio) \/ BdLt(BdFromInt(1), token0_ratio)
    THEN Panic("Invalid token0ValueProportion: must be a value between 0 and 1, inclusive")
    ELSE IF BdIsZero(token0_ratio) THEN Call1("tick_to_big_price", tick_upper)
    ELSE IF BdEq(token0_ratio, BdFromInt(1)) THEN Call1("tick_to_big_price", tick_lower)
    ELSE Token0RatioQuadratic(token0_ratio, tick_lower, tick_upper)

\* the return of token0_price_to_ratio for a valid range: 1 below the range, 0 at
\* or above its upper tick, and value0 / (value0 + amount1) inside
Token0PriceAmounts(price, tick_lower, tick_upper) ==
    LET sqrt_price_x96 == Call1("price_to_sqrt_ratio_x96", price)
        tick == Call1("get_tick_at_sqrt_ratio", sqrt_price_x96.val)
        liquidity == NMulSmall(Q96, 2)
        upper == Call1("get_sqrt_ratio_at_tick", tick_upper)
        lower == Call1("get_sqrt_ratio_at_tick", tick_lower)
        amount0 == Call3("get_amount_0_delta", sqrt_price_x96.val, upper.val, liquidity)
        amount1 == Call3("get_amount_1_delta", lower.val, sqrt_price_x96.val, liquidity)
        value0 == BdMul(BdFromNat(amount0.val), price)
        total == BdAdd(value0, BdFromNat(amount1.val))
    IN IF ~IsOk(sqrt_price_x96) THEN sqrt_price_x96
       ELSE IF ~IsOk(tick) THEN tick
       ELSE IF tick.val < tick_lower THEN Ok(BdFromInt(1))
       ELSE IF tick.val >= tick_upper THEN Ok(BdFromInt(0))
       ELSE IF ~IsOk(upper) THEN upper
       ELSE IF ~IsOk(amount0) THEN amount0
       ELSE IF ~IsOk(lower) THEN lower
       ELSE IF ~IsOk(amount1) THEN amount1
       ELSE IF BdIsZero(total) THEN Panic("Division by zero")
       ELSE Ok(BdDiv(value0, total))

\* a variant of token0_price_to_ratio that returns the share of token1
Token0PriceToRatioOfToken1(price, tick_lower, tick_upper) ==
    LET ratio == Token0PriceAmounts(price, tick_lower, tick_upper)
    IN IF tick_upper <= tick_lower THEN Err("InvalidRange")
       ELSE IF IsOk(ratio) THEN Ok(BdSub(BdFromInt(1), ratio.val))
       ELSE ratio
\* a variant of token0_price_to_ratio without the check of the range
Token0PriceToRatioUnchecked(price, tick_lower, tick_upper) ==
    Token0PriceAmounts(price, tick_lower, tick_upper)

token0_price_to_ratio(price, tick_lower, tick_upper) ==
    IF tick_upper <= tick_lower THEN Err("InvalidRange")
    ELSE Token0PriceAmounts(price, tick_lower, tick_upper)

tick_range_from_width_and_ratio(width, tick_current, token0_ratio, build) ==
    LET one == BdFromInt(1)
        two == BdFromInt(2)
        price == Call1("tick_to_big_price", tick_current)
        a == token0_ratio
        b == BdMul(BdSub(one, BdMul(a, two)), BdSqrt(price.val))
        price_width == Call1("tick_to_big_price", width)
        c == BdDiv(BdMul(price.val, BdSub(a, one)), BdSqrt(price_width.val))
        disc == BdSub(BdMul(b, b), BdMul(BdMul(a, c), BdFromInt(4)))
        price_lower_sqrt == BdDiv(BdSub(BdSqrt(disc), b), BdMul(a, two))
        sqrt_ratio_lower_x96 == BdMul(price_lower_sqrt, BdFromNat(Q96))
        tick_lower == Call1("get_tick_at_sqrt_ratio", BdToBigInt(sqrt_ratio_lower_x96).mag)
        below == I24Sub(tick_current, width, build)
        above == I24Add(tick_current, width, build)
        upper == I24Add(tick_lower.val, width, build)
    IN IF BdIsNegative(token0_ratio) \/ BdLt(one, token0_ratio)
       THEN Panic("Invalid token0ValueProportion: must be a value between 0 and 1, inclusive")
       ELSE IF BdIsZero(token0_ratio)
       THEN (IF IsOk(below) THEN Ok(<<below.val, tick_current>>) ELSE below)
       ELSE IF BdEq(token0_ratio, one)
       THEN (IF IsOk(above) THEN Ok(<<tick_current, above.val>>) ELSE above)
       ELSE IF ~IsOk(price) THEN price
       ELSE IF ~IsOk(price_width) THEN price_width
       ELSE IF BdIsNegative(disc) THEN Panic("unwrap on None")
       ELSE IF BdIsNegative(sqrt_ratio_lower_x96) THEN Panic("from_big_int of a negative value")
       ELSE IF ~IsOk(tick_lower) THEN tick_lower
       ELSE IF IsOk(upper) THEN Ok(<<tick_lower.val, upper.val>>) ELSE upper

(***************************************************************************)
(* The call of function fn on the arguments x1 .. x4 (unused arguments are *)
(* empty).  The first arm never applies; it evaluates the arguments.       *)
(***************************************************************************)
Call(fn, x1, x2, x3, x4) ==
    CASE <<x1, x2, x3, x4>> = <<>> -> <<>>
      [] fn = "NAdd" -> NAddImpl(x1, x2)
      [] fn = "NSub" -> NSubImpl(x1, x2)
      [] fn = "NCmp" -> NCmpImpl(x1, x2)
      [] fn = "NMulSmall" -> NMulSmallImpl(x1, x2)
      [] fn = "NMul" -> NMulImpl(x1, x2)
      [] fn = "NDivModSmall" -> NDivModSmallImpl(x1, x2)
      [] fn = "LongDiv" -> LongDivImpl(x1, x2)
      [] fn = "NSqrt" -> NSqrtImpl(x1)
      [] fn = "BdCmp" -> BdCmpImpl(x1, x2)
      [] fn = "BdAdd" -> BdAddImpl(x1, x2)
      [] fn = "BdMul" -> BdMulImpl(x1, x2)
      [] fn = "BdDiv" -> BdDivImpl(x1, x2)
      [] fn = "BdSqrt" -> BdSqrtImpl(x1)
      [] fn = "parse_price" -> parse_price(x1, x2, x3)
      [] fn = "sqrt_ratio_x96_to_price" -> sqrt_ratio_x96_to_price(x1, x2, x3)
      [] fn = "tick_to_price" -> tick_to_price(x1, x2, x3)
      [] fn = "price_to_closest_tick" -> price_to_closest_tick(x1)
      [] fn = "price_to_closest_tick_safe" -> price_to_closest_tick_safe(x1)
      [] fn = "tick_to_big_price" -> tick_to_big_price(x1)
      [] fn = "price_to_sqrt_ratio_x96" -> price_to_sqrt_ratio_x96(x1)
      [] fn = "token0_ratio_to_price" -> token0_ratio_to_price(x1, x2, x3)
      [] fn = "token0_price_to_ratio" -> token0_price_to_ratio(x1, x2, x3)
      [] fn = "tick_range_from_width_and_ratio" -> tick_range_from_width_and_ratio(x1, x2, x3, x4)
      [] fn = "get_sqrt_ratio_at_tick" -> get_sqrt_ratio_at_tick(x1)
      [] fn = "get_tick_at_sqrt_ratio" -> get_tick_at_sqrt_ratio(x1)
      [] fn = "get_amount_0_delta" -> get_amount_0_delta(x1, x2, x3)
      [] fn = "get_amount_1_delta" -> get_amount_1_delta(x1, x2, x3)
      [] fn = "encode_sqrt_ratio_x96" -> encode_sqrt_ratio_x96(x1, x2)

(***************************************************************************)
(* The state machine: a caller draws the arguments of a call, the call is  *)
(* one step, and a round trip feeds the first call's value to the second.  *)
(* pc names the call that is made next.                                    *)
(***************************************************************************)
VARIABLES pc, input, mid, output, lazy_min_price, lazy_max_price

vars == <<pc, input, mid, output, lazy_min_price, lazy_max_price>>

None == [tag |-> "None"]

\* ticks up to TickWindow away from MIN_TICK, 0 and MAX_TICK
TickWindow == 7
\* ticks of a range up to RangeWindow above MIN_TICK and 0 and below MAX_TICK
RangeWindow == 1
\* the longest text given to parse_price
MaxTextLen == 3
\* the widest small width given to tick_range_from_width_and_ratio
MaxWidth == 3

Dec(k, scale) == BdNew(FALSE, NFromInt(k), scale)
NegDec(k, scale) == BdNew(TRUE, NFromInt(k), scale)

WindowTicks ==
    (MIN_TICK..(MIN_TICK + TickWindow)) \cup ((-TickWindow)..TickWindow)
        \cup ((MAX_TICK - TickWindow)..MAX_TICK)
\* the ticks of the unit test of the source
TestTicks == {253320, 264600}
RangeTicks ==
    (MIN_TICK..(MIN_TICK + RangeWindow)) \cup (0..RangeWindow)
        \cup ((MAX_TICK - RangeWindow)..MAX_TICK)
TickRanges == (RangeTicks \X RangeTicks) \cup {<<253320, 264600>>}

InteriorRatios == {Dec(3, 1), Dec(5, 1), Dec(1, 30)}
OutsideRatios == {NegDec(1, 1), NegDec(1, 30), Dec(11, 1), Dec(2, 0)}
Ratios == {Dec(0, 0), Dec(1, 0)} \cup InteriorRatios \cup {NegDec(1, 1), Dec(11, 1)}
NegativePrices == {NegDec(1, 0), NegDec(5, 1), NegDec(1, 30)}
DecimalPrices == {Dec(0, 0), Dec(1, 0), Dec(10001, 4), BdFromNat(NPow10(40)), NegDec(1, 0)}

\* a digit outside ASCII stands for the digits \d matches beyond 0-9
Alphabet == {"0", "1", "7", ".", "-", "e", "U+0663"}
Texts == UNION {[1..n -> Alphabet] : n \in 0..MaxTextLen}

\* fractions at and around the bounds, and the price one
BoundFractions ==
    {MIN_PRICE, Fraction(NSub(MIN_PRICE.num, ONE), Q192), Fraction(<<>>, ONE),
     MAX_PRICE, Fraction(NAdd(MAX_PRICE.num, ONE), Q192), Fraction(NPow10(60), ONE),
     Fraction(ONE, ONE)}

Widths == (1..MaxWidth) \cup {I24_MAX}
CurrentTicks == {MIN_TICK, MIN_TICK + 1, -1, 0, 1, MAX_TICK - 1, MAX_TICK}
Builds == {"debug", "release"}

Fresh ==
    /\ output = None
    /\ lazy_min_price = "uninit"
    /\ lazy_max_price = "uninit"

InitParse ==
    /\ pc = "parse_price"
    /\ input \in [fn : {"parse_price"}, base : Tokens, quote : Tokens, text : Texts]
    /\ mid = None
    /\ Fresh

InitTickSafe ==
    /\ Fresh
    /\ \/ /\ pc = "tick_to_price"
          /\ input \in [fn : {"tick_to_price"}, base : Tokens, quote : Tokens, tick : WindowTicks]
          /\ mid = None
       \/ /\ pc = "price_to_closest_tick_safe"
          /\ input \in [fn : {"price_to_closest_tick_safe"}, base : Tokens, quote : Tokens,
                        fraction : BoundFractions]
          /\ mid = Ok(PriceNew(input.base, input.quote, input.fraction.den,
                               input.fraction.num))

InitDecimal ==
    /\ Fresh
    /\ \/ /\ pc = "tick_to_big_price"
          /\ input \in [fn : {"tick_to_big_price"}, tick : WindowTicks \cup TestTicks]
          /\ mid = None
       \/ /\ pc = "price_to_sqrt_ratio_x96"
          /\ input \in [fn : {"price_to_sqrt_ratio_x96"},
                        price : DecimalPrices \cup NegativePrices]
          /\ mid = Ok(input.price)

InitRatio ==
    /\ Fresh
    /\ \/ /\ pc = "token0_ratio_to_price"
          /\ input \in [fn : {"token0_ratio_to_price"}, token0_ratio : Ratios,
                        range : TickRanges]
          /\ mid = None
       \/ /\ pc = "token0_price_to_ratio"
          /\ input \in [fn : {"token0_price_to_ratio"}, price : DecimalPrices,
                        range : TickRanges]
          /\ mid = Ok(input.price)

InitRange ==
    /\ Fresh
    /\ pc = "tick_range_from_width_and_ratio"
    /\ input \in [fn : {"tick_range_from_width_and_ratio"}, width : Widths,
                  tick_current : CurrentTicks, token0_ratio : Ratios, build : Builds]
    /\ mid = None

\* the calls with a negative price or a ratio outside [0, 1], and with the bounds
InitDomain ==
    /\ Fresh
    /\ \/ /\ pc = "price_to_sqrt_ratio_x96"
          /\ input \in [fn : {"price_to_sqrt_ratio_x96"},
                        price : NegativePrices \cup {Dec(0, 0)}]
          /\ mid = Ok(input.price)
       \/ /\ pc = "token0_price_to_ratio"
          /\ input \in [fn : {"token0_price_to_ratio"},
                        price : NegativePrices \cup {Dec(1, 0)}, range : TickRanges]
          /\ mid = Ok(input.price)
       \/ /\ pc = "token0_ratio_to_price"
          /\ input \in [fn : {"token0_ratio_to_price"},
                        token0_ratio : OutsideRatios \cup {Dec(0, 0), Dec(1, 0)},
                        range : TickRanges]
          /\ mid = None
       \/ /\ pc = "tick_range_from_width_and_ratio"
          /\ input \in [fn : {"tick_range_from_width_and_ratio"}, width : Widths,
                        tick_current : CurrentTicks,
                        token0_ratio : OutsideRatios \cup {Dec(0, 0), Dec(1, 0)},
                        build : Builds]
          /\ mid = None

Init == InitParse \/ InitTickSafe \/ InitDecimal \/ InitRatio \/ InitRange \/ InitDomain

ParsePrice ==
    /\ pc = "parse_price"
    /\ output' = Call3("parse_price", input.base, input.quote, input.text)
    /\ pc' = "done"
    /\ UNCHANGED <<input, mid, lazy_min_price, lazy_max_price>>

TickToPrice ==
    /\ pc = "tick_to_price"
    /\ mid' = Call3("tick_to_price", input.base, input.quote, input.tick)
    /\ pc' = IF IsOk(mid') THEN "price_to_closest_tick_safe" ELSE "done"
    /\ UNCHANGED <<input, output, lazy_min_price, lazy_max_price>>

PriceToClosestTickSafe ==
    /\ pc = "price_to_closest_tick_safe"
    /\ output' = Call1("price_to_closest_tick_safe", mid.val)
    /\ lazy_min_price' = IF "MIN_PRICE" \in output'.forced THEN "init" ELSE lazy_min_price
    /\ lazy_max_price' = IF "MAX_PRICE" \in output'.forced THEN "init" ELSE lazy_max_price
    /\ pc' = "done"
    /\ UNCHANGED <<input, mid>>

TickToBigPrice ==
    /\ pc = "tick_to_big_price"
    /\ mid' = Call1("tick_to_big_price", input.tick)
    /\ pc' = IF IsOk(mid') THEN "price_to_sqrt_ratio_x96" ELSE "done"
    /\ UNCHANGED <<input, output, lazy_min_price, lazy_max_price>>

PriceToSqrtRatioX96 ==
    /\ pc = "price_to_sqrt_ratio_x96"
    /\ output' = Call1("price_to_sqrt_ratio_x96", mid.val)
    /\ pc' = "done"
    /\ UNCHANGED <<input, mid, lazy_min_price, lazy_max_price>>

Token0RatioToPrice ==
    /\ pc = "token0_ratio_to_price"
    /\ mid' = Call3("token0_ratio_to_price", input.token0_ratio, input.range[1],
                  input.range[2])
    /\ pc' = IF IsOk(mid') THEN "token0_price_to_ratio" ELSE "done"
    /\ UNCHANGED <<input, output, lazy_min_price, lazy_max_price>>

Token0PriceToRatio ==
    /\ pc = "token0_price_to_ratio"
    /\ output' = Call3("token0_price_to_ratio", mid.val, input.range[1], input.range[2])
    /\ pc' = "done"
    /\ UNCHANGED <<input, mid, lazy_min_price, lazy_max_price>>

TickRangeFromWidthAndRatio ==
    /\ pc = "tick_range_from_width_and_ratio"
    /\ output' = Call("tick_range_from_width_and_ratio", input.width, input.tick_current,
                    input.token0_ratio, input.build)
    /\ pc' = "done"
    /\ UNCHANGED <<input, mid, lazy_min_price, lazy_max_price>>

NextParse == ParsePrice
NextTickSafe == TickToPrice \/ PriceToClosestTickSafe
NextDecimal == TickToBigPrice \/ PriceToSqrtRatioX96
NextRatio == Token0RatioToPrice \/ Token0PriceToRatio
NextRange == TickRangeFromWidthAndRatio
NextDomain ==
    PriceToSqrtRatioX96 \/ Token0PriceToRatio \/ Token0RatioToPrice
        \/ TickRangeFromWidthAndRatio

Next ==
    \/ ParsePrice
    \/ TickToPrice
    \/ PriceToClosestTickSafe
    \/ TickToBigPrice
    \/ PriceToSqrtRatioX96
    \/ Token0RatioToPrice
    \/ Token0PriceToRatio
    \/ TickRangeFromWidthAndRatio

Spec == Init /\ [][Next]_vars
SpecParse == InitParse /\ [][NextParse]_vars
SpecTickSafe == InitTickSafe /\ [][NextTickSafe]_vars
SpecDecimal == InitDecimal /\ [][NextDecimal]_vars
SpecRatio == InitRatio /\ [][NextRatio]_vars
SpecRange == InitRange /\ [][NextRange]_vars
SpecDomain == InitDomain /\ [][NextDomain]_vars

(***************************************************************************)
(* Properties.                                                             *)
(***************************************************************************)
Done(fn) == pc = "done" /\ input.fn = fn
Sorted(base, quote) == sorts_before(base, quote) = Ok(TRUE)
Inverted(base, quote) == sorts_before(base, quote) = Ok(FALSE)

\* the grammar of a price text: digits and at most one '.', ending with a digit
InGrammar(text) ==
    /\ Len(text) >= 1
    /\ \A i \in 1..Len(text) : text[i] = "." \/ IsDigit(text[i])
    /\ Cardinality({i \in 1..Len(text) : text[i] = "."}) <= 1
    /\ IsDigit(text[Len(text)])
\* the digits of a text in order, the integer they write, and the count of the
\* digits after the '.'
DigitsOf(text) == SelectSeq(text, IsDigit)
RECURSIVE IntOfDigits(_)
IntOfDigits(d) ==
    IF d = <<>> THEN 0
    ELSE 10 * IntOfDigits(SubSeq(d, 1, Len(d) - 1)) + DigitValue(d[Len(d)])
FractionLen(text) ==
    IF \E i \in 1..Len(text) : text[i] = "."
    THEN Cardinality({i \in 1..Len(text) : \E j \in 1..(i - 1) : text[j] = "."})
    ELSE 0


\* C6: parse_price is lossless and guarded by the grammar.  For a text of the
\* grammar it returns the price of base in quote with
\* numerator = int(whole ++ fraction) * 10^quote.decimals and
\* denominator = 10^(len(fraction) + base.decimals); for every other text it
\* returns an error and no price.
ParsePriceLossless ==
    Done("parse_price") =>
        IF InGrammar(input.text)
        THEN /\ IsOk(output)
             /\ output.val.base_currency = input.base
             /\ output.val.quote_currency = input.quote
             /\ output.val.num = NMulPow10(NFromInt(IntOfDigits(DigitsOf(input.text))),
                                           input.quote.decimals)
             /\ output.val.den = NPow10(FractionLen(input.text) + input.base.decimals)
        ELSE output.tag = "Err"
\* a text with a fraction and no whole part has been parsed for WBTC in WETH
ParsePriceLosslessWitness ==
    /\ Done("parse_price")
    /\ input.text = <<".", "0", "7">>
    /\ input.base = WBTC /\ input.quote = WETH
    /\ IsOk(output)
    /\ output.val.num = NMulPow10(<<7>>, 18)
    /\ output.val.den = NPow10(10)

\* C7: the decimal bridge preserves the round trip: for every tick t,
\* price_to_sqrt_ratio_x96(tick_to_big_price(t)) is the oracle's sqrt ratio at t.
DecimalRoundTrip ==
    Done("tick_to_big_price") => output = Call1("get_sqrt_ratio_at_tick", input.tick)

\* C1: for every tick t and every token pair whose sort order is defined,
\* price_to_closest_tick_safe(tick_to_price(base, quote, t)) returns exactly t,
\* at MIN_TICK and MAX_TICK as well.
TickRoundTrip ==
    (Done("tick_to_price") /\ IsOk(sorts_before(input.base, input.quote)))
        => IsOk(mid) /\ output.res = Ok(input.tick)
\* the round trip of MAX_TICK has been made for a sorted pair: the price of
\* MAX_TICK lies above MAX_PRICE and is clamped to MAX_TICK without the oracle
TickRoundTripWitness ==
    /\ Done("tick_to_price")
    /\ input.tick = MAX_TICK
    /\ Sorted(input.base, input.quote)
    /\ IsOk(mid)
    /\ FracLt(MAX_PRICE, as_fraction(mid.val))
    /\ output.res = Ok(MAX_TICK)
    /\ ~output.oracle

\* C2: price_to_closest_tick_safe clamps by orientation.  Below MIN_PRICE it
\* returns MIN_TICK for a sorted pair and MAX_TICK for an inverted one, above
\* MAX_PRICE it returns MAX_TICK for a sorted pair and MIN_TICK for an inverted
\* one; the oracle is consulted only for MIN_PRICE <= price <= MAX_PRICE, and a
\* price outside the bounds gives no error but that of an undefined token order.
ClampByOrientation ==
    (pc = "done" /\ IsOk(mid)) =>
        LET price == as_fraction(mid.val)
            base == mid.val.base_currency
            quote == mid.val.quote_currency
            below == FracLt(price, MIN_PRICE)
            above == FracLt(MAX_PRICE, price)
        IN /\ (below /\ Sorted(base, quote)) => output.res = Ok(MIN_TICK)
           /\ (below /\ Inverted(base, quote)) => output.res = Ok(MAX_TICK)
           /\ (above /\ Sorted(base, quote)) => output.res = Ok(MAX_TICK)
           /\ (above /\ Inverted(base, quote)) => output.res = Ok(MIN_TICK)
           /\ output.oracle => ~below /\ ~above
           /\ (below \/ above) =>
                  \/ IsOk(output.res)
                  \/ /\ ~IsOk(sorts_before(base, quote))
                     /\ output.res = sorts_before(base, quote)
\* a price above MAX_PRICE of an inverted pair has been clamped to MIN_TICK
\* without the oracle
ClampByOrientationWitness ==
    /\ Done("price_to_closest_tick_safe")
    /\ FracLt(MAX_PRICE, input.fraction)
    /\ Inverted(input.base, input.quote)
    /\ output.res = Ok(MIN_TICK)
    /\ ~output.oracle

ValidRange == input.range[1] < input.range[2]
Interior(r) == ~BdIsNegative(r) /\ ~BdIsZero(r) /\ BdLt(r, Dec(1, 0))
OutsideUnit(r) == BdIsNegative(r) \/ BdLt(Dec(1, 0), r)
InUnit(r) == ~OutsideUnit(r)
\* |x - y| <= tolerance
Within(x, y, tolerance) == BdLe(BdAbs(BdSub(x, y)), tolerance)

\* C3, as stated: for every ratio r strictly between 0 and 1 and every range
\* lo < hi, token0_price_to_ratio(token0_ratio_to_price(r, lo, hi), lo, hi)
\* succeeds and returns r within 1e-18 relative tolerance.
RatioRoundTripRelative ==
    (Done("token0_ratio_to_price") /\ Interior(input.token0_ratio) /\ ValidRange)
        => /\ IsOk(mid) /\ IsOk(output)
           /\ Within(output.val, input.token0_ratio,
                     BdMul(Dec(1, 18), input.token0_ratio))
\* C3, amended: the round trip succeeds and returns a ratio in [0, 1] within
\* 1e-5 absolute tolerance of r; the integer sqrt ratio and the integer amounts
\* of the inverse path bound the accuracy.
RatioRoundTripAbsolute ==
    (Done("token0_ratio_to_price") /\ Interior(input.token0_ratio) /\ ValidRange)
        => /\ IsOk(mid) /\ IsOk(output)
           /\ InUnit(output.val)
           /\ Within(output.val, input.token0_ratio, Dec(1, 5))
\* the round trip of the ratio 0.5 on the two lowest ticks has returned another
\* ratio
RatioRoundTripWitness ==
    /\ Done("token0_ratio_to_price")
    /\ input.token0_ratio = Dec(5, 1)
    /\ input.range = <<MIN_TICK, MIN_TICK + 1>>
    /\ IsOk(output)
    /\ output.val # Dec(5, 1)

\* C4: for every range lo < hi, token0_ratio_to_price(0, lo, hi) is
\* tick_to_big_price(hi) and token0_ratio_to_price(1, lo, hi) is
\* tick_to_big_price(lo), exactly.
BoundaryConvention ==
    (input.fn = "token0_ratio_to_price" /\ pc # "token0_ratio_to_price" /\ ValidRange)
        => /\ BdIsZero(input.token0_ratio)
               => mid = Call1("tick_to_big_price", input.range[2])
           /\ input.token0_ratio = Dec(1, 0)
               => mid = Call1("tick_to_big_price", input.range[1])
\* the ratio 0 on the range of the repository's test has given the price of
\* the upper tick, which is not the price of the lower one
BoundaryConventionWitness ==
    /\ input.fn = "token0_ratio_to_price" /\ pc # "token0_ratio_to_price"
    /\ BdIsZero(input.token0_ratio)
    /\ input.range = <<253320, 264600>>
    /\ mid = Call1("tick_to_big_price", 264600)
    /\ mid # Call1("tick_to_big_price", 253320)

\* C8: for every non-negative price and every range lo < hi,
\* token0_price_to_ratio returns a decimal r with 0 <= r <= 1; it never aborts
\* on a division by zero.
RatioDefined ==
    (Done("token0_price_to_ratio") /\ ~BdIsNegative(input.price) /\ ValidRange)
        => IsOk(output) /\ InUnit(output.val)

\* C9: tick ordering is enforced eagerly.  token0_price_to_ratio with
\* tick_upper <= tick_lower fails with InvalidRange for every price, a negative
\* one included, and token0_ratio_to_price with tick_upper <= tick_lower
\* returns no price for any ratio.
EagerTickOrdering ==
    /\ (Done("token0_price_to_ratio") /\ ~ValidRange) => output = Err("InvalidRange")
    /\ (input.fn = "token0_ratio_to_price" /\ pc # "token0_ratio_to_price" /\ ~ValidRange)
           => ~IsOk(mid) /\ pc = "done" /\ output = None
\* a negative price on an empty range has failed with InvalidRange
EagerTickOrderingWitness ==
    /\ Done("token0_price_to_ratio")
    /\ BdIsNegative(input.price)
    /\ input.range[2] <= input.range[1]
    /\ output = Err("InvalidRange")

\* C5: whenever tick_range_from_width_and_ratio(width, tick_current, r) returns
\* a pair (tick_lower, tick_upper), for a width > 0, a tick_current in
\* [MIN_TICK, MAX_TICK] and r in [0, 1], tick_upper - tick_lower = width.
WidthExact ==
    (Done("tick_range_from_width_and_ratio") /\ IsOk(output) /\ input.width > 0
        /\ input.tick_current \in MIN_TICK..MAX_TICK /\ InUnit(input.token0_ratio))
        => output.val[2] - output.val[1] = input.width

\* C10: violations of non-negativity and of the ratio bounds are signalled and
\* never clamped.  price_to_sqrt_ratio_x96 and token0_price_to_ratio (on a
\* range lo < hi) return no value for a negative price, and
\* token0_ratio_to_price and tick_range_from_width_and_ratio return no value
\* for a ratio below 0 or above 1.
DomainViolationsSignalled ==
    /\ (Done("price_to_sqrt_ratio_x96") /\ BdIsNegative(input.price))
           => output.tag = "Panic"
    /\ (Done("token0_price_to_ratio") /\ BdIsNegative(input.price) /\ ValidRange)
           => output.tag = "Panic"
    /\ (Done("token0_ratio_to_price") /\ OutsideUnit(input.token0_ratio))
           => mid.tag = "Panic" /\ output = None
    /\ (Done("tick_range_from_width_and_ratio") /\ OutsideUnit(input.token0_ratio))
           => output.tag = "Panic"
\* the price -1e-30 has made price_to_sqrt_ratio_x96 panic
DomainViolationsSignalledWitness ==
    /\ Done("price_to_sqrt_ratio_x96")
    /\ input.price = NegDec(1, 30)
    /\ output = Panic("Invalid price: must be non-negative")
====
